---- MODULE Spec2Model ----
(***************************************************************************)
(* Product authentication: the byte cipher and signature of                *)
(* lib/cryptoUtils.ts, the proof-of-work sealing of lib/blockchainUtils.ts *)
(* and the ledger operations of the generate and verify API routes.        *)
(*                                                                         *)
(* Strings are sequences of character codes: 0..9 are '0'..'9', 10..35 are *)
(* 'a'..'z', 36..61 are 'A'..'Z' (the base-62 symbol order of the code)    *)
(* and 62 is '.'.  Byte buffers are sequences of 0..255.                   *)
(***************************************************************************)
EXTENDS Integers, Sequences, FiniteSets, TLC

\* ------------------------------------------------------------------ bounds
\* Number of concurrent issuance requests and verification requests.
NumGen == 2
NumVer == 2
\* The wall clock runs over 0..MaxClock.
MaxClock == 1
\* The mining attempt bound, 10000000 in the code, scaled to the model hash.
MiningLimit == 3

\* The signature length, 8 in the code, scaled so that the truncation
\* slice(0, 8) acts on buffers of a few bytes (at length 8 it acts from
\* about 1.3 million ciphertext bytes on).
ScaledSigLen == 2

\* ------------------------------------------------------- program constants
BLOCKCHAIN_DIFFICULTY == 3
SaltBytes == 8
GenesisLen == 64
SigLen == 8
Rounds == 4

Dot == 62
\* verifiedAt DateTime? : the absent date.
NULL == -1
\* The result of a call that throws, and the "(Decryption Failed)" annotation.
THROW == <<-1>>
DecryptionFailed == <<-2>>

GenProcs == 1..NumGen
VerProcs == (NumGen + 1)..(NumGen + NumVer)

\* ------------------------------------------------------------ bit operations
RECURSIVE BitXor(_, _)
BitXor(a, b) ==
  IF a = 0 THEN b
  ELSE IF b = 0 THEN a
  ELSE (((a % 2) + (b % 2)) % 2) + 2 * BitXor(a \div 2, b \div 2)

RECURSIVE BitOr(_, _)
BitOr(a, b) ==
  IF a = 0 THEN b
  ELSE IF b = 0 THEN a
  ELSE (IF (a % 2) + (b % 2) > 0 THEN 1 ELSE 0) + 2 * BitOr(a \div 2, b \div 2)

RECURSIVE BitAnd(_, _)
BitAnd(a, b) ==
  IF a = 0 \/ b = 0 THEN 0
  ELSE ((a % 2) * (b % 2)) + 2 * BitAnd(a \div 2, b \div 2)

RECURSIVE Pow(_, _)
Pow(b, n) == IF n = 0 THEN 1 ELSE b * Pow(b, n - 1)

Shl(x, n) == x * Pow(2, n)
Shr(x, n) == x \div Pow(2, n)

\* ------------------------------------------------------------------ strings
RECURSIVE Repeat(_, _)
Repeat(c, n) == IF n = 0 THEN <<>> ELSE <<c>> \o Repeat(c, n - 1)

\* Number.prototype.toString() of a non-negative integer: its decimal digits.
RECURSIVE NumToString(_)
NumToString(n) == IF n < 10 THEN <<n>> ELSE NumToString(n \div 10) \o <<n % 10>>

\* String.prototype.split("."): the segments between the separators.
RECURSIVE Split(_)
Split(s) ==
  IF \A i \in DOMAIN s : s[i] # Dot THEN <<s>>
  ELSE LET k == CHOOSE i \in DOMAIN s : s[i] = Dot /\ \A j \in 1..(i - 1) : s[j] # Dot
       IN  <<SubSeq(s, 1, k - 1)>> \o Split(SubSeq(s, k + 1, Len(s)))

\* Buffer.toString("hex"): two lowercase hex digits per byte.
RECURSIVE ToHex(_)
ToHex(bytes) ==
  IF bytes = <<>> THEN <<>>
  ELSE <<Head(bytes) \div 16, Head(bytes) % 16>> \o ToHex(Tail(bytes))

\* The value of a hex digit, or -1: 'a'..'f' and 'A'..'F' are both digits.
HexVal(c) ==
  IF c >= 0 /\ c <= 15 THEN c
  ELSE IF c >= 36 /\ c <= 41 THEN c - 26
  ELSE -1

\* Buffer.from(s, "hex"): decodes pairs of hex digits and stops at the first
\* pair that is incomplete or holds a character that is no hex digit.
RECURSIVE FromHex(_)
FromHex(s) ==
  IF Len(s) < 2 \/ HexVal(s[1]) < 0 \/ HexVal(s[2]) < 0 THEN <<>>
  ELSE <<16 * HexVal(s[1]) + HexVal(s[2])>> \o FromHex(SubSeq(s, 3, Len(s)))

\* ------------------------------------------------------------------ SHA-256
\* SHA-256 is a library primitive; it is modelled by a deterministic mixing
\* of the input characters over a small range, so that collisions and
\* leading-zero prefixes occur within the bounds.
HashLen == 4
HashTail == 4
DigestLen == 32
HashSpace == HashTail * Pow(2, HashLen - 1)

RECURSIVE Mix(_, _, _, _)
Mix(s, lo, hi, m) ==
  IF lo > hi THEN 3
  ELSE IF lo = hi THEN (s[lo] + 7) % m
  ELSE LET mid == (lo + hi) \div 2
       IN  (Mix(s, lo, mid, m) * 37 + Mix(s, mid + 1, hi, m) * 17 + 11) % m

\* createHash("sha256").update(data).digest("hex"): HashLen hex characters.
\* The leading characters are '0' or '8', the last one is one of HashTail
\* hex digits.
calculateHash(data) ==
  LET v == Mix(data, 1, Len(data), HashSpace)
  IN  [i \in 1..HashLen |->
         IF i < HashLen THEN 8 * ((v \div Pow(2, i - 1)) % 2)
         ELSE (5 * (v \div Pow(2, HashLen - 1))) % 16]

\* createHash("sha256").update(data).digest(): DigestLen bytes.  Two mixed
\* values enter, so that two inputs can agree in the first byte of their
\* digests and differ in the later ones.
Sha256Digest(data) ==
  LET v == Mix(data, 1, Len(data), 256)
      u == Mix(data, 1, Len(data), 3)
  IN  [i \in 1..DigestLen |-> (v * i + (37 + u) * (i - 1)) % 256]

\* ------------------------------------------------------------------- cipher
generateKeyStream(secretKey, salt, length) ==
  LET keyHash == Sha256Digest(secretKey \o ToHex(salt))
  IN  [i \in 1..length |-> keyHash[((i - 1) % Len(keyHash)) + 1]]

rotateLeft(byte, bits) == BitAnd(BitOr(Shl(byte, bits), Shr(byte, 8 - bits)), 255)

rotateRight(byte, bits) == BitAnd(BitOr(Shr(byte, bits), Shl(byte, 8 - bits)), 255)

nibbleSwap(byte) == BitOr(Shl(BitAnd(byte, 15), 4), Shr(BitAnd(byte, 240), 4))

\* Mutant: the key byte is applied after the rotation and the swap.
encryptRoundKeyLast(byte, keyByte) == BitXor(nibbleSwap(rotateLeft(byte, 1)), keyByte)

encryptRound(byte, keyByte) == nibbleSwap(rotateLeft(BitXor(byte, keyByte), 1))

\* Mutant: the key byte is applied before the rotation is undone.
decryptRoundKeyFirst(byte, keyByte) == rotateRight(BitXor(nibbleSwap(byte), keyByte), 1)

decryptRound(byte, keyByte) == BitXor(rotateRight(nibbleSwap(byte), 1), keyByte)

RECURSIVE EncryptRounds(_, _, _)
EncryptRounds(buf, keyStream, round) ==
  IF round = 0 THEN buf
  ELSE EncryptRounds([i \in DOMAIN buf |-> encryptRound(buf[i], keyStream[i])],
                     keyStream, round - 1)

RECURSIVE DecryptRounds(_, _, _)
DecryptRounds(buf, keyStream, round) ==
  IF round = 0 THEN buf
  ELSE DecryptRounds([i \in DOMAIN buf |-> decryptRound(buf[i], keyStream[i])],
                     keyStream, round - 1)

\* advancedQHCEncrypt with the salt that generateSalt() drew.
advancedQHCEncrypt(plainBuffer, secretKey, salt) ==
  LET keyStream == generateKeyStream(secretKey, salt, Len(plainBuffer))
      cipherBuffer == EncryptRounds(plainBuffer, keyStream, Rounds)
  IN  ToHex(salt) \o <<Dot>> \o ToHex(cipherBuffer)

\* Buffer.toString("utf8") of bytes: ASCII bytes are themselves, any other
\* byte is shown as the replacement character U+FFFD.
Utf8Decode(bytes) == [i \in DOMAIN bytes |-> IF bytes[i] < 128 THEN bytes[i] ELSE 65533]

\* THROW when the format check fails, else the decoded text.
advancedQHCDecrypt(encryptedData, secretKey) ==
  LET parts == Split(encryptedData)
  IN  IF Len(parts) # 2 THEN THROW
      ELSE LET salt == FromHex(parts[1])
               cipherBuffer == FromHex(parts[2])
               keyStream == generateKeyStream(secretKey, salt, Len(cipherBuffer))
           IN  Utf8Decode(DecryptRounds(cipherBuffer, keyStream, Rounds))

\* ---------------------------------------------------------------- signature
RECURSIVE base62Digits(_)
base62Digits(num) ==
  IF num = 0 THEN <<>> ELSE base62Digits(num \div 62) \o <<num % 62>>

base62Encode(num) == IF num = 0 THEN <<0>> ELSE base62Digits(num)

\* Mutant: the weight of a byte is its zero-based index.
RECURSIVE WeightedSumZeroBased(_, _)
WeightedSumZeroBased(cipherBuffer, i) ==
  IF i = 0 THEN 0
  ELSE cipherBuffer[i] * (i - 1) + WeightedSumZeroBased(cipherBuffer, i - 1)

RECURSIVE WeightedSum(_, _)
WeightedSum(cipherBuffer, i) ==
  IF i = 0 THEN 0 ELSE cipherBuffer[i] * i + WeightedSum(cipherBuffer, i - 1)

\* Mutant: the sum is XOR-ed with the last byte of the key stream.
SignatureValueLastByte(cipherBuffer, keyStream) ==
  BitXor(WeightedSum(cipherBuffer, Len(cipherBuffer)), keyStream[Len(keyStream)])

\* hashValue before its encoding: the weighted sum XOR keyStream[0].
SignatureValue(cipherBuffer, keyStream) ==
  BitXor(WeightedSum(cipherBuffer, Len(cipherBuffer)), keyStream[1])

\* padStart(width, "0").slice(0, width)
PadSliceTo(s, width) ==
  LET padded == IF Len(s) >= width THEN s ELSE Repeat(0, width - Len(s)) \o s
  IN  SubSeq(padded, 1, width)

\* padStart(8, "0").slice(0, 8)
PadSlice(s) == PadSliceTo(s, SigLen)

\* advancedQDSGenerateSignature with the signature length as a parameter.
\* THROW when the format check fails, and when the ciphertext is empty:
\* keyStream[0] is then undefined and BigInt(undefined) throws a TypeError.
SignatureOfWidth(encryptedData, secretKey, width) ==
  LET parts == Split(encryptedData)
  IN  IF Len(parts) # 2 THEN THROW
      ELSE LET salt == FromHex(parts[1])
               cipherBuffer == FromHex(parts[2])
               keyStream == generateKeyStream(secretKey, salt, Len(cipherBuffer))
           IN  IF Len(cipherBuffer) = 0 THEN THROW
               ELSE PadSliceTo(base62Encode(SignatureValue(cipherBuffer, keyStream)), width)

advancedQDSGenerateSignature(encryptedData, secretKey) ==
  SignatureOfWidth(encryptedData, secretKey, SigLen)

\* The comparison of the recomputed signature; the call throws exactly when
\* advancedQDSGenerateSignature does (SignatureThrows).
SignatureThrows(encryptedData, secretKey) ==
  advancedQDSGenerateSignature(encryptedData, secretKey) = THROW

\* Mutant: the given signature is compared as a prefix of the expected one.
advancedQDSVerifySignaturePrefix(encryptedData, signature, secretKey) ==
  LET expectedSignature == advancedQDSGenerateSignature(encryptedData, secretKey)
  IN  /\ Len(expectedSignature) >= Len(signature)
      /\ SubSeq(expectedSignature, 1, Len(signature)) = signature

advancedQDSVerifySignature(encryptedData, signature, secretKey) ==
  LET expectedSignature == advancedQDSGenerateSignature(encryptedData, secretKey)
  IN  expectedSignature = signature

\* --------------------------------------------------------- blockchainUtils
blockDataToString(blockData) ==
  NumToString(blockData.timestamp) \o blockData.product_details_hash
    \o blockData.encrypted_data_salt \o blockData.signature
    \o blockData.previous_block_hash \o NumToString(blockData.nonce)

calculateBlockHash(blockData) == calculateHash(blockDataToString(blockData))

\* Mutant: the target is looked for at the end of the hash.
StartsWithAtEnd(s, prefix) ==
  Len(s) >= Len(prefix) /\ SubSeq(s, Len(s) - Len(prefix) + 1, Len(s)) = prefix

\* String.prototype.startsWith
StartsWith(s, prefix) ==
  Len(s) >= Len(prefix) /\ SubSeq(s, 1, Len(prefix)) = prefix

WithNonce(blockData, nonce) ==
  [timestamp |-> blockData.timestamp,
   product_details_hash |-> blockData.product_details_hash,
   encrypted_data_salt |-> blockData.encrypted_data_salt,
   signature |-> blockData.signature,
   previous_block_hash |-> blockData.previous_block_hash,
   nonce |-> nonce]

\* The loop of mineBlock from a given nonce: found, or aborted when the
\* incremented nonce exceeds the attempt bound.  attempts counts the calls
\* of calculateBlockHash the loop has made.
RECURSIVE MineFrom(_, _, _)
MineFrom(blockData, targetPrefix, nonce) ==
  LET hash == calculateBlockHash(WithNonce(blockData, nonce))
  IN  IF StartsWith(hash, targetPrefix)
      THEN [found |-> TRUE, nonce |-> nonce, hash |-> hash, attempts |-> nonce + 1]
      ELSE IF nonce + 1 > MiningLimit
      THEN [found |-> FALSE, nonce |-> nonce + 1, hash |-> hash, attempts |-> nonce + 1]
      ELSE MineFrom(blockData, targetPrefix, nonce + 1)

\* Mutant: the search starts at nonce 1.
mineBlockFromOne(blockData, difficulty) == MineFrom(blockData, Repeat(0, difficulty), 1)

mineBlock(blockData, difficulty) == MineFrom(blockData, Repeat(0, difficulty), 0)

\* The product record is represented by its serialization.
hashProductDetails(details) == calculateHash(details)

\* ------------------------------------------------------------------- inputs
Keys == {<<20, 1>>}
OtherKey == <<20, 2>>
\* A key whose digests begin with the byte of those of the key of Keys.
CollidingKey == <<26, 3>>
Products == {<<104, 105>>}
SaltSeeds == {26, 43}
\* generateSalt(): SaltBytes random bytes.
Salts == {[i \in 1..SaltBytes |-> b] : b \in SaltSeeds}

GenesisHash == Repeat(0, GenesisLen)

SaltOf(encrypted) == Split(encrypted)[1]

\* Steps 1 and 2 of the generate route before the first ledger call, for
\* every request body and every salt generateSalt() may draw.
GenRequests ==
  {LET encrypted == advancedQHCEncrypt(product, secretKey, salt)
   IN  [product |-> product, secretKey |-> secretKey, encrypted |-> encrypted,
        signature |-> advancedQDSGenerateSignature(encrypted, secretKey),
        productDetailsHash |-> hashProductDetails(product),
        encryptedDataSalt |-> SaltOf(encrypted)]
   : product \in Products, secretKey \in Keys, salt \in Salts}

\* One bit of the last ciphertext character flipped.
FlipLast(encrypted) ==
  [encrypted EXCEPT ![Len(encrypted)] = BitXor(encrypted[Len(encrypted)], 1)]

VerRequest(encrypted, signature, secretKey) ==
  [encrypted |-> encrypted, signature |-> signature, secretKey |-> secretKey]

\* The request bodies a client may send to the verify route: an issued
\* payload with its signature and key, with another key, with a flipped
\* ciphertext bit, a payload with an empty salt segment and its signature,
\* and a payload with no separator.
VerRequests ==
  UNION {{VerRequest(rq.encrypted, rq.signature, rq.secretKey)} : rq \in GenRequests}
  \cup {VerRequest(FlipLast(rq.encrypted), rq.signature, rq.secretKey) :
          rq \in {r \in GenRequests : r.encryptedDataSalt = ToHex([i \in 1..SaltBytes |-> 26])}}
  \cup {VerRequest(rq.encrypted, rq.signature, OtherKey) :
          rq \in {r \in GenRequests : r.encryptedDataSalt = ToHex([i \in 1..SaltBytes |-> 26])}}
  \cup {VerRequest(<<Dot, 4, 1>>, advancedQDSGenerateSignature(<<Dot, 4, 1>>, k), k) : k \in Keys}
  \cup {VerRequest(<<4, 1>>, Repeat(0, SigLen), k) : k \in Keys}

\* advancedQHCDecrypt inside try/catch: the text or the annotation.
DecryptOrAnnotate(encrypted, secretKey) ==
  IF advancedQHCDecrypt(encrypted, secretKey) = THROW THEN DecryptionFailed
  ELSE advancedQHCDecrypt(encrypted, secretKey)

\* Step 1 of the verify route: the signature check inside try/catch.
IsAuthentic(encrypted, signature, secretKey) ==
  IF SignatureThrows(encrypted, secretKey) THEN FALSE
  ELSE advancedQDSVerifySignature(encrypted, signature, secretKey)

\* The pure part of the verify route, evaluated once per request body.
VerPure ==
  [rq \in VerRequests |->
     [isAuthentic |-> IsAuthentic(rq.encrypted, rq.signature, rq.secretKey),
      saltFromProductQR |-> SaltOf(rq.encrypted),
      decryptedData |-> DecryptOrAnnotate(rq.encrypted, rq.secretKey)]]

\* -------------------------------------------------------------------- state
VARIABLES
  ledger,   \* the BlockchainLedger collection, in insertion order
  now,      \* the wall clock read by Date.now(), new Date() and now()
  gen,      \* the issuance requests (POST /api/generate with the ledger)
  ver,      \* the verification requests (POST /api/verify with the ledger)
  call      \* one call of a library function: its arguments and its result

vars == <<ledger, now, gen, ver, call>>

NoRequest ==
  [product |-> <<>>, secretKey |-> <<>>, encrypted |-> <<>>, signature |-> <<>>,
   productDetailsHash |-> <<>>, encryptedDataSalt |-> <<>>]

NoError == [code |-> "none", target |-> {}]

GenIdle ==
  [pc |-> "idle", rq |-> NoRequest, timestamp |-> 0, previousBlockHash |-> <<>>,
   nonce |-> 0, currentBlockHash |-> <<>>, blockId |-> 0,
   dbError |-> NoError, res |-> "none"]

VerIdle ==
  [pc |-> "idle", rq |-> VerRequest(<<>>, <<>>, <<>>), salt |-> <<>>,
   blockId |-> 0, at |-> NULL, outcome |-> "none", verifiedAt |-> NULL,
   details |-> <<>>, hIssued |-> FALSE, hAfterFirst |-> FALSE, hFirst |-> FALSE,
   hStorageError |-> FALSE]

NoBlockData ==
  [timestamp |-> 0, product_details_hash |-> <<>>, encrypted_data_salt |-> <<>>,
   signature |-> <<>>, previous_block_hash |-> <<>>]

NoMined == [found |-> FALSE, nonce |-> 0, hash |-> <<>>, attempts |-> 0]

\* No library call: the arguments of every function and the results.
NoCall ==
  [fn |-> "none", pc |-> "idle",
   blockData |-> NoBlockData, difficulty |-> 0,
   plain |-> <<>>, keyStream |-> <<>>, secretKey |-> <<>>, salt |-> <<>>,
   encrypted |-> <<>>, signature |-> <<>>,
   index |-> 0, bit |-> 0, width |-> 0, altered |-> <<>>,
   mined |-> NoMined, cipher |-> <<>>, decoded |-> <<>>, ok |-> FALSE,
   cancelled |-> FALSE, otherKey |-> <<>>, otherSignature |-> <<>>,
   response |-> "none"]

Init ==
  /\ ledger = <<>>
  /\ now = 0
  /\ gen = [g \in GenProcs |-> GenIdle]
  /\ ver = [v \in VerProcs |-> VerIdle]
  /\ call = NoCall

\* The clock advances between any two steps.
Tick ==
  /\ now < MaxClock
  /\ now' = now + 1
  /\ UNCHANGED <<ledger, gen, ver, call>>

\* ----------------------------------------------------------- ledger queries
\* findFirst({orderBy: {createdAt: "desc"}}): a block of the greatest
\* createdAt; blocks created at the same instant are in no defined order.
LastBlocks ==
  {i \in DOMAIN ledger : \A j \in DOMAIN ledger : ledger[j].createdAt <= ledger[i].createdAt}

\* findUnique({where: {encrypted_data_salt}}): the ids of the matching blocks.
BlocksWithSalt(salt) == {i \in DOMAIN ledger : ledger[i].encrypted_data_salt = salt}

\* Mutant: the unique indexes are missing.
UniqueConflictsNone(block) == {}

\* The @unique fields of the schema that a new block would conflict on.
UniqueConflicts(block) ==
  (IF \E i \in DOMAIN ledger : ledger[i].encrypted_data_salt = block.encrypted_data_salt
   THEN {"encrypted_data_salt"} ELSE {})
  \cup
  (IF \E i \in DOMAIN ledger : ledger[i].current_block_hash = block.current_block_hash
   THEN {"current_block_hash"} ELSE {})

\* Mutant: the whole payload is stored in place of its salt prefix.
NewBlockPayloadAsSalt(r) ==
  [id |-> Len(ledger) + 1,
   timestamp |-> r.timestamp,
   product_details_hash |-> r.rq.productDetailsHash,
   encrypted_data_salt |-> r.rq.encrypted,
   signature |-> r.rq.signature,
   previous_block_hash |-> r.previousBlockHash,
   nonce |-> r.nonce,
   current_block_hash |-> r.currentBlockHash,
   product |-> r.rq.product,
   isVerified |-> FALSE,
   verifiedAt |-> NULL,
   createdAt |-> now]

\* Mutant: the clock is read again when the record is assembled.
NewBlockClockAtSave(r) ==
  [id |-> Len(ledger) + 1,
   timestamp |-> now,
   product_details_hash |-> r.rq.productDetailsHash,
   encrypted_data_salt |-> r.rq.encryptedDataSalt,
   signature |-> r.rq.signature,
   previous_block_hash |-> r.previousBlockHash,
   nonce |-> r.nonce,
   current_block_hash |-> r.currentBlockHash,
   product |-> r.rq.product,
   isVerified |-> FALSE,
   verifiedAt |-> NULL,
   createdAt |-> now]

\* newBlockData, and the stored record with the defaults of the schema.
\* BigInt(timestamp) is the same integer, with the same decimal string form.
NewBlock(r) ==
  [id |-> Len(ledger) + 1,
   timestamp |-> r.timestamp,
   product_details_hash |-> r.rq.productDetailsHash,
   encrypted_data_salt |-> r.rq.encryptedDataSalt,
   signature |-> r.rq.signature,
   previous_block_hash |-> r.previousBlockHash,
   nonce |-> r.nonce,
   current_block_hash |-> r.currentBlockHash,
   product |-> r.rq.product,
   isVerified |-> FALSE,
   verifiedAt |-> NULL,
   createdAt |-> now]

\* Mutant: the catch block does not look at the error code.
SaveErrorMessageGeneric(dbError) == "SaveFailed"

\* The message chosen by the catch block around create and the confirmation.
SaveErrorMessage(dbError) ==
  IF dbError.code = "P2002" \/ "encrypted_data_salt" \in dbError.target
  THEN "DuplicateSalt"
  ELSE IF dbError.code = "P2002" \/ "current_block_hash" \in dbError.target
  THEN "DuplicateHash"
  ELSE "SaveFailed"

\* ----------------------------------------------------------------- issuance
\* The response: {encrypted, signature, secretKey}, or the error of status 500.
GenDone(g, res) ==
  gen' = [gen EXCEPT ![g] = [GenIdle EXCEPT !.pc = "done", !.res = res,
                                          !.rq = gen[g].rq, !.blockId = gen[g].blockId]]

\* The catch block around create and the confirmation: dbError is caught,
\* its message is chosen and the request ends; nothing is retried.
GenSaveFailed(g, dbError) ==
  gen' = [gen EXCEPT ![g] = [GenIdle EXCEPT !.pc = "done", !.rq = gen[g].rq,
                                          !.blockId = gen[g].blockId,
                                          !.dbError = dbError,
                                          !.res = SaveErrorMessage(dbError)]]

\* Steps 1 and 2 of the route, up to the call of findFirst.
GenStart(g) ==
  /\ gen[g].pc = "idle"
  /\ \A h \in GenProcs : h < g => gen[h].pc # "idle"
  /\ \E rq \in GenRequests :
       gen' = [gen EXCEPT ![g] =
                 IF rq.signature = THROW
                 THEN [GenIdle EXCEPT !.pc = "done", !.res = "CryptoError"]
                 ELSE IF rq.encryptedDataSalt = <<>>
                 THEN [GenIdle EXCEPT !.pc = "done", !.res = "NoSalt"]
                 ELSE [GenIdle EXCEPT !.pc = "tip", !.rq = rq, !.timestamp = now]]
  /\ UNCHANGED <<ledger, now, ver, call>>

\* findFirst answers; then the block is mined and create is called.
GenReadTip(g) ==
  /\ gen[g].pc = "tip"
  /\ \/ GenDone(g, "TipError")
     \/ \E previousBlockHash \in
             IF ledger = <<>> THEN {GenesisHash}
             ELSE {ledger[i].current_block_hash : i \in LastBlocks} :
          LET r == gen[g]
              dataToMine == [timestamp |-> r.timestamp,
                             product_details_hash |-> r.rq.productDetailsHash,
                             encrypted_data_salt |-> r.rq.encryptedDataSalt,
                             signature |-> r.rq.signature,
                             previous_block_hash |-> previousBlockHash]
              mined == mineBlock(dataToMine, BLOCKCHAIN_DIFFICULTY)
          IN  \/ /\ ~mined.found
                 /\ GenDone(g, "MiningExhausted")
              \/ /\ mined.found
                 /\ gen' = [gen EXCEPT ![g].pc = "create",
                                       ![g].previousBlockHash = previousBlockHash,
                                       ![g].nonce = mined.nonce,
                                       ![g].currentBlockHash = mined.hash]
  /\ UNCHANGED <<ledger, now, ver, call>>

\* create answers: stored, rejected by a unique index, or failed otherwise.
GenCreate(g) ==
  /\ gen[g].pc = "create"
  /\ LET block == NewBlock(gen[g])
     IN  \/ /\ UniqueConflicts(block) = {}
            /\ ledger' = Append(ledger, block)
            /\ gen' = [gen EXCEPT ![g].pc = "confirm", ![g].blockId = block.id]
         \/ /\ \E target \in UniqueConflicts(block) :
                 GenSaveFailed(g, [code |-> "P2002", target |-> {target}])
            /\ UNCHANGED ledger
         \/ /\ GenSaveFailed(g, [code |-> "other", target |-> {}])
            /\ UNCHANGED ledger
  /\ UNCHANGED <<now, ver, call>>

\* The confirmation findUnique by id answers; the route returns.
GenConfirm(g) ==
  /\ gen[g].pc = "confirm"
  /\ \/ IF \E i \in DOMAIN ledger : ledger[i].id = gen[g].blockId
        THEN GenDone(g, "ok")
        ELSE GenSaveFailed(g, [code |-> "undefined", target |-> {}])
     \/ GenSaveFailed(g, [code |-> "other", target |-> {}])
  /\ UNCHANGED <<ledger, now, ver, call>>

\* ------------------------------------------------------------- verification
\* The response: the message, the details and the date the message shows.
VerDone(v, outcome, verifiedAt) ==
  ver' = [ver EXCEPT ![v].pc = "done", ![v].outcome = outcome,
                     ![v].verifiedAt = verifiedAt,
                     ![v].blockId = 0, ![v].at = NULL,
                     ![v].details = VerPure[ver[v].rq].decryptedData]

\* The catch blocks of the ledger calls: the failure of findUnique or of
\* update is caught (hStorageError records it) and the response carries the
\* message the block chose, with the details.
VerFailed(v, outcome) ==
  ver' = [ver EXCEPT ![v].pc = "done", ![v].outcome = outcome,
                     ![v].verifiedAt = NULL,
                     ![v].blockId = 0, ![v].at = NULL,
                     ![v].details = VerPure[ver[v].rq].decryptedData,
                     ![v].hStorageError = TRUE]

\* The responses whose message says "Product is AUTHENTIC".
AuthenticMessages ==
  {"LedgerSkipped", "Unregistered", "AlreadyVerified", "First",
   "UpdateFailedOutOfSync", "UpdateFailed", "LedgerCheckFailed"}

\* Step 1 of the route: the signature check, then the call of findUnique.
VerStart(v) ==
  /\ ver[v].pc = "idle"
  /\ \A w \in VerProcs : w < v => ver[w].pc # "idle"
  /\ \E rq \in VerRequests :
       ver' = [ver EXCEPT ![v] =
         IF ~VerPure[rq].isAuthentic
         THEN [VerIdle EXCEPT !.pc = "done", !.rq = rq, !.outcome = "Tampered"]
         ELSE IF VerPure[rq].saltFromProductQR = <<>>
         THEN [VerIdle EXCEPT !.pc = "done", !.rq = rq, !.outcome = "LedgerSkipped",
                              !.details = VerPure[rq].decryptedData]
         ELSE [VerIdle EXCEPT
                 !.pc = "lookup", !.rq = rq, !.salt = VerPure[rq].saltFromProductQR,
                 !.hIssued = \E g \in GenProcs :
                               /\ gen[g].pc = "done" /\ gen[g].res = "ok"
                               /\ gen[g].rq.encrypted = rq.encrypted
                               /\ gen[g].rq.signature = rq.signature
                               /\ gen[g].rq.secretKey = rq.secretKey,
                 !.hAfterFirst = \E w \in VerProcs :
                               /\ ver[w].pc = "done" /\ ver[w].outcome = "First"
                               /\ ver[w].salt = VerPure[rq].saltFromProductQR]]
  /\ UNCHANGED <<ledger, now, gen, call>>

\* findUnique by salt answers; a first verification calls update.
VerLookup(v) ==
  /\ ver[v].pc = "lookup"
  /\ LET found == BlocksWithSalt(ver[v].salt)
     IN  \/ VerFailed(v, "LedgerCheckFailed")
         \/ /\ found = {}
            /\ VerDone(v, "Unregistered", NULL)
         \/ \E i \in found :
              /\ ledger[i].isVerified
              /\ VerDone(v, "AlreadyVerified", ledger[i].verifiedAt)
         \/ \E i \in found :
              /\ ~ledger[i].isVerified
              /\ ver' = [ver EXCEPT ![v].pc = "update", ![v].blockId = ledger[i].id,
                           ![v].at = now,
                           ![v].hFirst = \A w \in VerProcs \ {v} :
                              ver[w].pc = "idle" \/ ver[w].salt # ver[v].salt]
  /\ UNCHANGED <<ledger, now, gen, call>>

\* Mutant: the update toggles the flag.
MarkVerifiedToggle(block, at) ==
  [block EXCEPT !.isVerified = ~block.isVerified, !.verifiedAt = at]

\* Mutant: the update writes the date and leaves the flag.
MarkVerifiedDateOnly(block, at) == [block EXCEPT !.verifiedAt = at]

\* Mutant: the update writes the block's timestamp as well.
MarkVerifiedTimestamp(block, at) ==
  [block EXCEPT !.isVerified = TRUE, !.verifiedAt = at, !.timestamp = at + 1]

\* Mutant: the update writes the creation date as well.
MarkVerifiedRestamp(block, at) ==
  [block EXCEPT !.isVerified = TRUE, !.verifiedAt = at, !.createdAt = at]

\* update({where: {id}, data: {isVerified: true, verifiedAt}}) on the stored block.
MarkVerified(block, at) == [block EXCEPT !.isVerified = TRUE, !.verifiedAt = at]

\* update answers: written, or failed with one of the two reported messages.
VerUpdate(v) ==
  /\ ver[v].pc = "update"
  /\ \/ /\ ledger' = [ledger EXCEPT ![ver[v].blockId] = MarkVerified(@, ver[v].at)]
        /\ VerDone(v, "First", ver[v].at)
     \/ /\ VerFailed(v, "UpdateFailedOutOfSync")
        /\ UNCHANGED ledger
     \/ /\ VerFailed(v, "UpdateFailed")
        /\ UNCHANGED ledger
  /\ UNCHANGED <<now, gen, call>>

\* ------------------------------------------------------------ specification
Next ==
  \/ Tick
  \/ \E g \in GenProcs : GenStart(g) \/ GenReadTip(g) \/ GenCreate(g) \/ GenConfirm(g)
  \/ \E v \in VerProcs : VerStart(v) \/ VerLookup(v) \/ VerUpdate(v)

Spec == Init /\ [][Next]_vars

\* ------------------------------------------------------------ library calls
\* The functions of lib/blockchainUtils.ts and lib/cryptoUtils.ts called on
\* their own: the arguments are drawn at the start and one step runs the call.
\* pc is "returned" when the call returned and "thrown" when it threw.

\* The hashes a stored block can have: those the route has sealed.
SealedHashes ==
  {h \in {calculateHash(<<c>>) : c \in 0..(HashSpace - 1)} :
     StartsWith(h, Repeat(0, BLOCKCHAIN_DIFFICULTY))}

\* dataToMine of the route, for every request, clock value and chain tip.
MineInputs ==
  {[timestamp |-> t,
    product_details_hash |-> rq.productDetailsHash,
    encrypted_data_salt |-> rq.encryptedDataSalt,
    signature |-> rq.signature,
    previous_block_hash |-> p]
   : t \in 0..MaxClock, rq \in GenRequests, p \in {GenesisHash} \cup SealedHashes}

\* Every difficulty up to one more than the length of a hash.
Difficulties == 0..(HashLen + 1)

MineCalls ==
  {[NoCall EXCEPT !.fn = "mineBlock", !.blockData = bd, !.difficulty = d]
   : bd \in MineInputs, d \in Difficulties}

\* mineBlock(blockData, difficulty): returns {nonce, hash} or throws.
CallMineBlock ==
  /\ call.fn = "mineBlock" /\ call.pc = "idle"
  /\ LET mined == mineBlock(call.blockData, call.difficulty)
     IN  call' = [call EXCEPT !.pc = IF mined.found THEN "returned" ELSE "thrown",
                              !.mined = mined]
  /\ UNCHANGED <<ledger, now, gen, ver>>

\* Payloads given to the signature functions: issued ones, and "41", "1.2.3",
\* "", ".", ".41" and "1a.zz".
SigPayloads ==
  {rq.encrypted : rq \in GenRequests}
  \cup {<<4, 1>>, <<1, Dot, 2, Dot, 3>>, <<>>, <<Dot>>, <<Dot, 4, 1>>,
        <<1, 10, Dot, 35, 35>>}

\* The letters of s in the other case.
SwapCase(s) ==
  [i \in DOMAIN s |-> IF s[i] >= 10 /\ s[i] <= 35 THEN s[i] + 26
                       ELSE IF s[i] >= 36 /\ s[i] <= 61 THEN s[i] - 26
                       ELSE s[i]]

\* Signatures a caller may present for a payload: the one the key gives, the
\* one another key gives, and strings that differ from it in one character,
\* in case, in length or altogether.
SigCandidates(encrypted, secretKey) ==
  LET sig == advancedQDSGenerateSignature(encrypted, secretKey)
      s == IF sig = THROW THEN Repeat(0, SigLen) ELSE sig
      o == advancedQDSGenerateSignature(encrypted, OtherKey)
  IN  {s, SwapCase(s), SubSeq(s, 1, Len(s) - 1), s \o <<0>>,
       [s EXCEPT ![Len(s)] = (@ + 1) % 62], <<>>, Repeat(0, SigLen)}
      \cup (IF o = THROW THEN {} ELSE {o})

VerifyCalls ==
  UNION {{[NoCall EXCEPT !.fn = f, !.encrypted = e, !.secretKey = k, !.signature = s]
          : f \in {"advancedQDSVerifySignature", "verify"},
            k \in Keys \cup {OtherKey},
            s \in UNION {SigCandidates(e, k2) : k2 \in Keys}}
         : e \in SigPayloads}

\* advancedQDSVerifySignature(encryptedData, signature, secretKey): returns
\* a boolean or throws what advancedQDSGenerateSignature throws.
CallVerifySignature ==
  /\ call.fn = "advancedQDSVerifySignature" /\ call.pc = "idle"
  /\ call' = IF SignatureThrows(call.encrypted, call.secretKey)
             THEN [call EXCEPT !.pc = "thrown"]
             ELSE [call EXCEPT !.pc = "returned",
                     !.ok = advancedQDSVerifySignature(call.encrypted, call.signature,
                                                       call.secretKey)]
  /\ UNCHANGED <<ledger, now, gen, ver>>

\* POST of the verify route without the ledger: the signature check and the
\* decryption are inside one try block whose catch answers with status 500.
CallVerify ==
  /\ call.fn = "verify" /\ call.pc = "idle"
  /\ call' =
       IF SignatureThrows(call.encrypted, call.secretKey)
       THEN [call EXCEPT !.pc = "returned", !.response = "Error500"]
       ELSE IF ~advancedQDSVerifySignature(call.encrypted, call.signature, call.secretKey)
       THEN [call EXCEPT !.pc = "returned", !.response = "Tampered"]
       ELSE IF advancedQHCDecrypt(call.encrypted, call.secretKey) = THROW
       THEN [call EXCEPT !.pc = "returned", !.ok = TRUE, !.response = "Error500"]
       ELSE [call EXCEPT !.pc = "returned", !.ok = TRUE, !.response = "Authentic",
                         !.decoded = advancedQHCDecrypt(call.encrypted, call.secretKey)]
  /\ UNCHANGED <<ledger, now, gen, ver>>

\* Ciphertexts whose signature is checked after one bit was flipped: those
\* of the issued payloads, of "hello", and buffers of small and large bytes.
TamperCiphers ==
  {FromHex(Split(rq.encrypted)[2]) : rq \in GenRequests}
  \cup {FromHex(Split(advancedQHCEncrypt(<<104, 101, 108, 108, 111>>, k, s))[2])
        : k \in Keys, s \in Salts}
  \cup {<<0>>, <<128>>, <<1, 2, 3>>, <<255, 255, 255, 255, 255, 255>>}

TamperCalls ==
  UNION {{[NoCall EXCEPT !.fn = "tamper", !.cipher = c, !.salt = s, !.secretKey = k,
                         !.index = i, !.bit = b, !.width = w]
          : s \in Salts, k \in Keys \cup {OtherKey}, i \in 1..Len(c), b \in 0..7,
            w \in {SigLen, ScaledSigLen}}
         : c \in TamperCiphers}

\* One bit of one byte flipped.
FlipBit(bytes, i, b) == [bytes EXCEPT ![i] = BitXor(@, Pow(2, b))]

\* The payload is signed, one bit of its ciphertext is flipped, and the
\* altered payload is verified against the signature of the original:
\* the signature is recomputed and compared.
CallTamper ==
  /\ call.fn = "tamper" /\ call.pc = "idle"
  /\ LET encrypted == ToHex(call.salt) \o <<Dot>> \o ToHex(call.cipher)
         altered == ToHex(call.salt) \o <<Dot>>
                      \o ToHex(FlipBit(call.cipher, call.index, call.bit))
         signature == SignatureOfWidth(encrypted, call.secretKey, call.width)
     IN  call' = [call EXCEPT
                    !.pc = "returned", !.encrypted = encrypted, !.altered = altered,
                    !.signature = signature,
                    !.ok = IF call.width = SigLen
                           THEN advancedQDSVerifySignature(altered, signature, call.secretKey)
                           ELSE SignatureOfWidth(altered, call.secretKey, call.width)
                                  = signature]
  /\ UNCHANGED <<ledger, now, gen, ver>>

\* Step 3 and the create of step 4 of the generate route on an empty ledger,
\* with the loop of mineBlock run one iteration per step.  The caller of the
\* route may raise a cancellation or let a deadline pass while the loop runs
\* (cancelled); mineBlock takes (blockData, difficulty) and nothing else.
MiningCalls ==
  {[NoCall EXCEPT !.fn = "mining", !.plain = rq.product, !.secretKey = rq.secretKey,
                  !.encrypted = rq.encrypted, !.signature = rq.signature,
                  !.blockData = [timestamp |-> t,
                                 product_details_hash |-> rq.productDetailsHash,
                                 encrypted_data_salt |-> rq.encryptedDataSalt,
                                 signature |-> rq.signature,
                                 previous_block_hash |-> GenesisHash],
                  !.difficulty = BLOCKCHAIN_DIFFICULTY]
   : t \in 0..MaxClock, rq \in GenRequests}

\* One iteration of the while (true) loop of mineBlock: the hash of the
\* current nonce is computed; the loop returns it, or increments the nonce
\* and throws or goes on.  The loop reads nothing but blockData, the target
\* prefix and the nonce.
MineAttempt ==
  /\ call.fn = "mining" /\ call.pc \in {"idle", "mining"}
  /\ LET nonce == call.mined.nonce
         hash == calculateBlockHash(WithNonce(call.blockData, nonce))
     IN  call' =
           IF StartsWith(hash, Repeat(0, call.difficulty))
           THEN [call EXCEPT !.pc = "returned",
                   !.mined = [found |-> TRUE, nonce |-> nonce, hash |-> hash,
                              attempts |-> nonce + 1]]
           ELSE [call EXCEPT !.pc = IF nonce + 1 > MiningLimit THEN "thrown" ELSE "mining",
                   !.mined = [found |-> FALSE, nonce |-> nonce + 1, hash |-> hash,
                              attempts |-> nonce + 1]]
  /\ UNCHANGED <<ledger, now, gen, ver>>

\* The caller cancels, or its deadline passes, between two iterations.
CallerCancel ==
  /\ call.fn = "mining" /\ call.pc = "mining" /\ ~call.cancelled
  /\ call' = [call EXCEPT !.cancelled = TRUE]
  /\ UNCHANGED <<ledger, now, gen, ver>>

\* mineBlock returned {nonce, hash}: the route assembles newBlockData and
\* calls create, which stores the block or fails (the ledger is empty, so no
\* unique index rejects it).
MinedCreate ==
  /\ call.fn = "mining" /\ call.pc = "returned"
  /\ LET r == [GenIdle EXCEPT
                 !.rq = [product |-> call.plain, secretKey |-> call.secretKey,
                         encrypted |-> call.encrypted, signature |-> call.signature,
                         productDetailsHash |-> call.blockData.product_details_hash,
                         encryptedDataSalt |-> call.blockData.encrypted_data_salt],
                 !.timestamp = call.blockData.timestamp,
                 !.previousBlockHash = call.blockData.previous_block_hash,
                 !.nonce = call.mined.nonce,
                 !.currentBlockHash = call.mined.hash]
     IN  \/ /\ ledger' = Append(ledger, NewBlock(r))
            /\ call' = [call EXCEPT !.pc = "stored", !.response = "ok"]
         \/ /\ call' = [call EXCEPT !.pc = "saveFailed",
                                    !.response = SaveErrorMessage([code |-> "other", target |-> {}])]
            /\ UNCHANGED ledger
  /\ UNCHANGED <<now, gen, ver>>

\* Payloads given to advancedQDSGenerateSignature: those of SigPayloads, and
\* hex(salt) + "." + hex(ciphertext) for the ciphertexts of TamperCiphers and
\* for the empty ciphertext, which advancedQHCEncrypt gives for the text "".
SignPayloads ==
  SigPayloads
  \cup {ToHex(s) \o <<Dot>> \o ToHex(c) : s \in Salts, c \in TamperCiphers \cup {<<>>}}

SignCalls ==
  {[NoCall EXCEPT !.fn = "advancedQDSGenerateSignature", !.encrypted = e,
                  !.secretKey = k, !.width = w]
   : e \in SignPayloads, k \in Keys \cup {OtherKey}, w \in {SigLen, ScaledSigLen}}

\* advancedQDSGenerateSignature(encryptedData, secretKey): returns the
\* signature or throws.
CallGenerateSignature ==
  /\ call.fn = "advancedQDSGenerateSignature" /\ call.pc = "idle"
  /\ LET signature == SignatureOfWidth(call.encrypted, call.secretKey, call.width)
     IN  call' = IF signature = THROW
                 THEN [call EXCEPT !.pc = "thrown"]
                 ELSE [call EXCEPT !.pc = "returned", !.signature = signature]
  /\ UNCHANGED <<ledger, now, gen, ver>>

\* The texts and keys a code is issued for: the product text, "", "hello"
\* and the characters 0 and 127; the keys of the requests, another key and
\* the empty key.
IssueCalls ==
  {[NoCall EXCEPT !.fn = "issue", !.plain = p, !.secretKey = k, !.salt = s]
   : p \in Products \cup {<<>>, <<104, 101, 108, 108, 111>>, <<0, 127>>},
     k \in Keys \cup {OtherKey, <<>>}, s \in Salts}

\* advancedQHCEncrypt(plainText, secretKey) with the salt it drew, then
\* advancedQDSGenerateSignature(encrypted, secretKey) as the generate route
\* calls them, then advancedQDSVerifySignature(encrypted, signature,
\* secretKey); a throw of the signature function ends the sequence.
CallIssue ==
  /\ call.fn = "issue" /\ call.pc = "idle"
  /\ LET encrypted == advancedQHCEncrypt(call.plain, call.secretKey, call.salt)
         signature == advancedQDSGenerateSignature(encrypted, call.secretKey)
     IN  call' = IF signature = THROW
                 THEN [call EXCEPT !.pc = "thrown", !.encrypted = encrypted]
                 ELSE [call EXCEPT !.pc = "returned", !.encrypted = encrypted,
                         !.signature = signature,
                         !.ok = advancedQDSVerifySignature(encrypted, signature,
                                                           call.secretKey)]
  /\ UNCHANGED <<ledger, now, gen, ver>>

\* One payload signed under two secret keys: the key of a request, another
\* key, and a key whose key stream begins with the same byte.
TwoKeyCalls ==
  {[NoCall EXCEPT !.fn = "twoKeys", !.cipher = c, !.salt = s, !.width = w,
                  !.secretKey = kk[1], !.otherKey = kk[2]]
   : c \in TamperCiphers \cup {<<>>}, s \in Salts, w \in {SigLen, ScaledSigLen},
     kk \in UNION {{<<k, OtherKey>>, <<k, CollidingKey>>, <<OtherKey, CollidingKey>>}
                   : k \in Keys}}

\* advancedQDSGenerateSignature(encrypted, secretKey) and (encrypted,
\* otherKey), then the signature of the first key verified with the other
\* key: the signature is recomputed and compared.
CallTwoKeys ==
  /\ call.fn = "twoKeys" /\ call.pc = "idle"
  /\ LET encrypted == ToHex(call.salt) \o <<Dot>> \o ToHex(call.cipher)
         signature == SignatureOfWidth(encrypted, call.secretKey, call.width)
         otherSignature == SignatureOfWidth(encrypted, call.otherKey, call.width)
     IN  call' = IF signature = THROW \/ otherSignature = THROW
                 THEN [call EXCEPT !.pc = "thrown", !.encrypted = encrypted]
                 ELSE [call EXCEPT
                         !.pc = "returned", !.encrypted = encrypted,
                         !.signature = signature, !.otherSignature = otherSignature,
                         !.ok = IF call.width = SigLen
                                THEN advancedQDSVerifySignature(encrypted, signature,
                                                                call.otherKey)
                                ELSE otherSignature = signature]
  /\ UNCHANGED <<ledger, now, gen, ver>>

LibCalls ==
  MineCalls \cup VerifyCalls \cup TamperCalls \cup MiningCalls \cup SignCalls
    \cup IssueCalls \cup TwoKeyCalls

LibInit ==
  /\ ledger = <<>>
  /\ now = 0
  /\ gen = [g \in GenProcs |-> GenIdle]
  /\ ver = [v \in VerProcs |-> VerIdle]
  /\ call \in LibCalls

LibNext ==
  \/ CallMineBlock \/ CallVerifySignature \/ CallVerify \/ CallTamper
  \/ MineAttempt \/ CallerCancel \/ MinedCreate
  \/ CallGenerateSignature \/ CallIssue \/ CallTwoKeys

LibSpec == LibInit /\ [][LibNext]_vars

\* ------------------------------------------------------------- cipher calls
\* The two round loops on their own, for every plaintext byte and every key
\* stream byte, and for buffers of several bytes.
RoundsCalls ==
  {[NoCall EXCEPT !.fn = "rounds", !.plain = <<p>>, !.keyStream = <<k>>]
   : p \in 0..255, k \in 0..255}
  \cup {[NoCall EXCEPT !.fn = "rounds", !.plain = p, !.keyStream = ks]
        : p \in {<<1, 2, 3>>, <<104, 105, 255>>}, ks \in {<<7, 200, 33>>, <<255, 0, 128>>}}

\* Texts of ASCII characters, as Buffer.from(plainText, "utf8") gives them:
\* "", "hi", "hello" and the characters 0 and 127.
PlainTexts == Products \cup {<<>>, <<104, 101, 108, 108, 111>>, <<0, 127>>}

CipherKeys == Keys \cup {OtherKey, <<>>}

QHCCalls ==
  {[NoCall EXCEPT !.fn = "advancedQHC", !.plain = p, !.secretKey = k, !.salt = s]
   : p \in PlainTexts, k \in CipherKeys, s \in Salts \cup {[i \in 1..SaltBytes |-> 0]}}

\* The round loops of advancedQHCEncrypt and, on its result, of
\* advancedQHCDecrypt, with one key stream.
CallRounds ==
  /\ call.fn = "rounds" /\ call.pc = "idle"
  /\ LET cipherBuffer == EncryptRounds(call.plain, call.keyStream, Rounds)
     IN  call' = [call EXCEPT !.pc = "returned", !.cipher = cipherBuffer,
                              !.decoded = DecryptRounds(cipherBuffer, call.keyStream, Rounds)]
  /\ UNCHANGED <<ledger, now, gen, ver>>

\* advancedQHCEncrypt(plainText, secretKey) with the salt it drew, then
\* advancedQHCDecrypt(encrypted, secretKey).
CallEncryptDecrypt ==
  /\ call.fn = "advancedQHC" /\ call.pc = "idle"
  /\ LET encrypted == advancedQHCEncrypt(call.plain, call.secretKey, call.salt)
         decrypted == advancedQHCDecrypt(encrypted, call.secretKey)
     IN  call' = [call EXCEPT !.pc = IF decrypted = THROW THEN "thrown" ELSE "returned",
                              !.encrypted = encrypted, !.decoded = decrypted]
  /\ UNCHANGED <<ledger, now, gen, ver>>

CipherInit ==
  /\ ledger = <<>>
  /\ now = 0
  /\ gen = [g \in GenProcs |-> GenIdle]
  /\ ver = [v \in VerProcs |-> VerIdle]
  /\ call \in RoundsCalls \cup QHCCalls

CipherNext == CallRounds \/ CallEncryptDecrypt

CipherSpec == CipherInit /\ [][CipherNext]_vars

\* =================================================================== claims
FirstOutcomes(salt) ==
  {v \in VerProcs : ver[v].pc = "done" /\ ver[v].outcome = "First" /\ ver[v].salt = salt}

\* C1: of the concurrent verification requests for one salt whose block was
\* never verified, exactly one returns the first-verification outcome: no
\* two requests for the same salt both return it.
C1_OneFirstVerification ==
  \A v, w \in VerProcs :
    (v \in FirstOutcomes(ver[v].salt) /\ w \in FirstOutcomes(ver[v].salt)) => v = w

\* C2: once the verifiedAt of a block is set, no step changes it.
C2_VerifiedAtWrittenOnce ==
  [][\A i \in DOMAIN ledger :
       ledger[i].verifiedAt # NULL =>
         (i \in DOMAIN ledger' /\ ledger'[i].verifiedAt = ledger[i].verifiedAt)]_vars

\* C3: a block is appended with isVerified false, and no step changes the
\* isVerified of a stored block from true to false; so it changes from
\* false to true at most once.
C3_IsVerifiedMonotone ==
  [][/\ \A i \in DOMAIN ledger :
          i \in DOMAIN ledger' /\ (ledger[i].isVerified => ledger'[i].isVerified)
     /\ \A i \in DOMAIN ledger' \ DOMAIN ledger : ~ledger'[i].isVerified]_vars

\* C3 witness: a verified block on which two requests have both run the update.
C3_Witness ==
  \E i \in DOMAIN ledger :
    /\ ledger[i].isVerified
    /\ Cardinality(FirstOutcomes(ledger[i].encrypted_data_salt)) = 2

\* C4: the first block links to the genesis value and every later block
\* links to the hash of the block appended just before it.
C4_ChainIntegrity ==
  \A i \in DOMAIN ledger :
    ledger[i].previous_block_hash =
      IF i = 1 THEN GenesisHash ELSE ledger[i - 1].current_block_hash

\* C5: no two blocks of the ledger have the same previous_block_hash.
C5_NoFork ==
  \A i, j \in DOMAIN ledger :
    i # j => ledger[i].previous_block_hash # ledger[j].previous_block_hash

\* C6: no two blocks of the ledger have the same salt, and no two have the
\* same current_block_hash.
C6_UniqueSaltAndHash ==
  \A i, j \in DOMAIN ledger :
    i # j => /\ ledger[i].encrypted_data_salt # ledger[j].encrypted_data_salt
             /\ ledger[i].current_block_hash # ledger[j].current_block_hash

\* C6 witness: two issuance requests drew the same salt; one stored its
\* block and the create of the other was rejected.
C6_Witness ==
  \E g, h \in GenProcs :
    /\ g # h
    /\ gen[g].rq.encryptedDataSalt = gen[h].rq.encryptedDataSalt
    /\ gen[g].blockId # 0
    /\ gen[h].pc = "done" /\ gen[h].dbError.code = "P2002" /\ gen[h].blockId = 0

\* C7: a verification whose signature check succeeded returns one of the
\* three ledger outcomes: unregistered, first verification, already verified.
C7_ThreeOutcomes ==
  \A v \in VerProcs :
    (ver[v].pc = "done" /\ VerPure[ver[v].rq].isAuthentic) =>
      ver[v].outcome \in {"Unregistered", "First", "AlreadyVerified"}

LedgerFailures == {"LedgerCheckFailed", "UpdateFailed", "UpdateFailedOutOfSync"}

DuplicateEntry == {"DuplicateSalt", "DuplicateHash"}

\* C10: an issuance whose create was rejected by a unique index ends with a
\* duplicate-entry error, one whose create or confirmation failed otherwise
\* ends with the other save error, and a rejected issuance has stored no block.
C10_DuplicateEntryDistinct ==
  \A g \in GenProcs :
    /\ gen[g].dbError.code = "P2002" =>
         gen[g].pc = "done" /\ gen[g].res \in DuplicateEntry /\ gen[g].blockId = 0
    /\ gen[g].dbError.code = "other" =>
         gen[g].pc = "done" /\ gen[g].res = "SaveFailed"
    /\ gen[g].res \in DuplicateEntry => gen[g].dbError.code = "P2002"

\* C10 witness: one issuance was rejected by a unique index and another one
\* failed to save for another reason.
C10_Witness ==
  \E g, h \in GenProcs :
    /\ gen[g].dbError.code = "P2002" /\ gen[g].res \in DuplicateEntry
    /\ gen[h].dbError.code = "other" /\ gen[h].res = "SaveFailed"

\* C11: whenever mineBlock returns (nonce, hash), for any block content and
\* any difficulty d >= 0, hash begins with d '0' characters and is the hash
\* of the string forms of timestamp, product_details_hash, salt, signature,
\* previous_block_hash and that nonce, concatenated.
C11_MinedHashSealed ==
  (call.fn = "mineBlock" /\ call.pc = "returned") =>
    /\ Len(call.mined.hash) >= call.difficulty
    /\ \A i \in 1..call.difficulty : call.mined.hash[i] = 0
    /\ call.mined.hash =
         calculateHash(NumToString(call.blockData.timestamp)
                       \o call.blockData.product_details_hash
                       \o call.blockData.encrypted_data_salt
                       \o call.blockData.signature
                       \o call.blockData.previous_block_hash
                       \o NumToString(call.mined.nonce))

\* C11 witness: a call with the difficulty of the route returned a nonce
\* other than 0.
C11_Witness ==
  /\ call.fn = "mineBlock" /\ call.pc = "returned"
  /\ call.difficulty = BLOCKCHAIN_DIFFICULTY
  /\ call.mined.nonce > 0

\* C12: mineBlock ends by returning a valid (nonce, hash) or, when none of
\* the first MiningLimit nonces (0..MiningLimit-1) meets the target, by
\* throwing after at most MiningLimit hash attempts.
C12_MiningBounded ==
  (call.fn = "mineBlock" /\ call.pc # "idle") =>
    /\ call.mined.attempts <= MiningLimit
    /\ call.pc = "returned" => call.mined.nonce \in 0..(MiningLimit - 1)
    /\ call.pc = "thrown" =>
         \A n \in 0..(MiningLimit - 1) :
           ~StartsWith(calculateBlockHash(WithNonce(call.blockData, n)),
                       Repeat(0, call.difficulty))

\* C13: every stored block has a current_block_hash that begins with
\* BLOCKCHAIN_DIFFICULTY '0' characters and is the hash of the block's own
\* stored timestamp, product_details_hash, salt, signature,
\* previous_block_hash and nonce.
C13_StoredHashSealed ==
  \A i \in DOMAIN ledger :
    /\ Len(ledger[i].current_block_hash) >= BLOCKCHAIN_DIFFICULTY
    /\ \A k \in 1..BLOCKCHAIN_DIFFICULTY : ledger[i].current_block_hash[k] = 0
    /\ ledger[i].current_block_hash =
         calculateHash(NumToString(ledger[i].timestamp)
                       \o ledger[i].product_details_hash
                       \o ledger[i].encrypted_data_salt
                       \o ledger[i].signature
                       \o ledger[i].previous_block_hash
                       \o NumToString(ledger[i].nonce))

\* C13 witness: two stored blocks, the second mined on the hash of the
\* first, one of them with a nonce other than 0 and one stored at a later
\* clock value than the one it was mined with.
C13_Witness ==
  /\ Len(ledger) = 2
  /\ ledger[2].previous_block_hash = ledger[1].current_block_hash
  /\ \E i \in DOMAIN ledger : ledger[i].nonce > 0
  /\ \E i \in DOMAIN ledger : ledger[i].createdAt > ledger[i].timestamp

\* C14: decoding the result of encoding p with a key stream, with the same
\* key stream, gives p, for every byte sequence p; and advancedQHCDecrypt of
\* advancedQHCEncrypt(p, key) with the same key returns p.
C14_CipherRoundTrip ==
  /\ (call.fn = "rounds" /\ call.pc # "idle") => call.decoded = call.plain
  /\ (call.fn = "advancedQHC" /\ call.pc # "idle") =>
        call.pc = "returned" /\ call.decoded = call.plain

\* C14 witness: "hello" was encrypted to a payload of a salt and five
\* bytes other than the text, and decrypted.
C14_Witness ==
  /\ call.fn = "advancedQHC" /\ call.pc = "returned"
  /\ call.plain = <<104, 101, 108, 108, 111>>
  /\ Len(call.encrypted) = 2 * SaltBytes + 1 + 10
  /\ FromHex(Split(call.encrypted)[2]) # call.plain

\* C15: advancedQDSVerifySignature(enc, sig, key) returns true if and only
\* if sig is exactly the string advancedQDSGenerateSignature(enc, key)
\* returns.
C15_VerifyIffSignatureEqual ==
  (call.fn = "advancedQDSVerifySignature" /\ call.pc # "idle") =>
    ((call.pc = "returned" /\ call.ok)
       <=> (/\ advancedQDSGenerateSignature(call.encrypted, call.secretKey) # THROW
            /\ Len(call.signature) = SigLen
            /\ \A i \in 1..SigLen :
                 call.signature[i] =
                   advancedQDSGenerateSignature(call.encrypted, call.secretKey)[i]))

\* C15 witness: the check of an issued payload returned false for a
\* signature that differs from the expected one only in the case of a letter.
C15_Witness ==
  /\ call.fn = "advancedQDSVerifySignature" /\ call.pc = "returned" /\ ~call.ok
  /\ call.encrypted \in {rq.encrypted : rq \in GenRequests}
  /\ call.signature # advancedQDSGenerateSignature(call.encrypted, call.secretKey)
  /\ SwapCase(call.signature) = advancedQDSGenerateSignature(call.encrypted, call.secretKey)

\* C16: for a payload that does not parse (not exactly two segments around
\* one '.'), the signature verification returns false: the call
\* advancedQDSVerifySignature does not throw, and the verify operation
\* answers as for a failed verification.
C16_MalformedIsFalse ==
  (call.pc # "idle" /\ Len(Split(call.encrypted)) # 2) =>
    /\ call.fn = "advancedQDSVerifySignature" => (call.pc = "returned" /\ ~call.ok)
    /\ call.fn = "verify" => call.response = "Tampered"

\* C17: a verification request whose payload is malformed (not exactly two
\* segments around one '.') ends with the ValidationError outcome, not with
\* the tampered outcome or an authentic one.
C17_MalformedIsValidationError ==
  \A v \in VerProcs :
    (ver[v].pc = "done" /\ Len(Split(ver[v].rq.encrypted)) # 2) =>
      ver[v].outcome = "ValidationError"

\* The number of base-62 digits of the hashValue of a payload's signature.
SignatureDigits(encrypted, secretKey) ==
  LET salt == FromHex(Split(encrypted)[1])
      cipherBuffer == FromHex(Split(encrypted)[2])
  IN  Len(base62Encode(SignatureValue(cipherBuffer,
            generateKeyStream(secretKey, salt, Len(cipherBuffer)))))

\* C18 as stated: for every payload and key, when one bit of one ciphertext
\* byte is flipped, verifying the altered payload against the signature of
\* the original returns false.
C18_TamperDetected ==
  (call.fn = "tamper" /\ call.pc = "returned") => ~call.ok

\* C18 amended: the same, for payloads whose hashValue, before and after the
\* flip, has no more base-62 digits than the signature has characters.
C18_TamperDetectedUntruncated ==
  (/\ call.fn = "tamper" /\ call.pc = "returned"
   /\ SignatureDigits(call.encrypted, call.secretKey) <= call.width
   /\ SignatureDigits(call.altered, call.secretKey) <= call.width) => ~call.ok

\* C18 witness: the lowest bit of the first byte of an issued ciphertext
\* was flipped and the check with the signature of 8 characters returned false.
C18_Witness ==
  /\ call.fn = "tamper" /\ call.pc = "returned" /\ ~call.ok
  /\ call.width = SigLen /\ call.index = 1 /\ call.bit = 0
  /\ call.encrypted \in {rq.encrypted : rq \in GenRequests}
  /\ SignatureDigits(call.encrypted, call.secretKey) <= call.width
  /\ SignatureDigits(call.altered, call.secretKey) <= call.width

\* C19 is about a decryption that fails after the signature check succeeded.
\* advancedQHCDecrypt throws only on the format check that
\* advancedQDSGenerateSignature makes first, so no request reaches that case:
\* every verification whose signature check succeeded carries the decrypted
\* text, never the annotation.
DecryptionFailureUnreachable ==
  /\ \A rq \in VerRequests :
       VerPure[rq].isAuthentic => VerPure[rq].decryptedData # DecryptionFailed
  /\ \A v \in VerProcs :
       (ver[v].pc = "done" /\ ver[v].outcome # "Tampered") =>
         ver[v].details # DecryptionFailed
  /\ (call.fn = "verify" /\ call.ok) => call.response = "Authentic"

\* C20: a verification in which findUnique by salt or the mark-verified
\* update failed ends with a storage error, not with an authentic outcome;
\* and when the update failed, the block is left unverified by that request
\* and the request does not report first verification.
C20_StorageErrorSurfaces ==
  [][\A v \in VerProcs :
       (ver[v].pc # "done" /\ ver'[v].pc = "done" /\ ver'[v].hStorageError) =>
         /\ ver'[v].outcome \notin AuthenticMessages
         /\ ver'[v].outcome # "First"
         /\ ledger' = ledger]_vars

\* C21: mining is cancellable by its caller: once the caller has raised a
\* cancellation or its deadline has passed between two hash attempts of an
\* issuance, mining stops without returning a block and no block is appended
\* to the ledger for that issuance.
C21_MiningCancellable ==
  (call.fn = "mining" /\ call.cancelled) =>
    /\ call.pc \in {"mining", "thrown"}
    /\ ~call.mined.found
    /\ ledger = <<>>

\* A string of an even number of hex digits.
IsHex(s) == Len(s) % 2 = 0 /\ \A i \in DOMAIN s : HexVal(s[i]) >= 0

\* A payload of the form hex(salt) + "." + hex(ciphertext).
WellFormed(encrypted) ==
  /\ Len(Split(encrypted)) = 2
  /\ IsHex(Split(encrypted)[1])
  /\ IsHex(Split(encrypted)[2])

\* The number of base-62 digits of a value.
RECURSIVE DigitCount(_)
DigitCount(v) == IF v < 62 THEN 1 ELSE 1 + DigitCount(v \div 62)

\* Character i of a signature of the given width for the value v: the
\* digits of v in base 62, padded on the left with '0' to the width, of which
\* the first width are kept.
SignatureChar(v, width, i) ==
  LET d == IF DigitCount(v) > width THEN DigitCount(v) ELSE width
  IN  IF d - i > 5 THEN 0 ELSE (v \div Pow(62, d - i)) % 62

\* The signature algorithm on a call of advancedQDSGenerateSignature that
\* returned: the characters of the result are those of the weighted sum of
\* the ciphertext bytes XOR keyStream[0].
SignatureAsSpecified ==
  LET salt == FromHex(Split(call.encrypted)[1])
      cipherBuffer == FromHex(Split(call.encrypted)[2])
      keyStream == generateKeyStream(call.secretKey, salt, Len(cipherBuffer))
      v == BitXor(WeightedSum(cipherBuffer, Len(cipherBuffer)), keyStream[1])
  IN  /\ Len(call.signature) = call.width
      /\ \A i \in 1..call.width :
           /\ call.signature[i] \in 0..61
           /\ call.signature[i] = SignatureChar(v, call.width, i)

\* C22: for every well-formed payload and key, advancedQDSGenerateSignature
\* returns the string of the weighted sum of the ciphertext bytes XOR
\* keyStream[0], in base 62 with the symbols in the order digits, lowercase,
\* uppercase, padded on the left with '0' and cut to 8 characters; so every
\* signature has 8 characters of those 62 symbols.
C22_SignatureAlgorithm ==
  (/\ call.fn = "advancedQDSGenerateSignature" /\ call.pc # "idle"
   /\ WellFormed(call.encrypted)) =>
    /\ call.pc = "returned"
    /\ SignatureAsSpecified

\* Every call of advancedQDSGenerateSignature on a payload with at least one
\* ciphertext byte returns the signature as specified; the calls on a
\* well-formed payload that throw are those with an empty ciphertext.
SignatureOfNonEmptyCiphertext ==
  (call.fn = "advancedQDSGenerateSignature" /\ call.pc # "idle") =>
    /\ (Len(Split(call.encrypted)) = 2 /\ FromHex(Split(call.encrypted)[2]) # <<>>) =>
         (call.pc = "returned" /\ SignatureAsSpecified)
    /\ (call.pc = "thrown" /\ WellFormed(call.encrypted)) =>
         FromHex(Split(call.encrypted)[2]) = <<>>

\* The outcomes of a verification that made no write.
ReadOnlyOutcomes == {"Tampered", "Unregistered", "AlreadyVerified"}

\* C23: a verification that ends in Tampered, unregistered or already
\* verified leaves the whole ledger unchanged, and a request whose signature
\* check failed makes no ledger lookup and no write; a first verification
\* changes the isVerified and verifiedAt of the one block whose salt matches
\* and no other block and no other field.
C23_VerificationFrame ==
  [][\A v \in VerProcs :
       /\ (ver[v].pc # "done" /\ ver'[v].pc = "done"
             /\ ver'[v].outcome \in ReadOnlyOutcomes) => ledger' = ledger
       /\ ver'[v].pc \in {"lookup", "update"} => VerPure[ver'[v].rq].isAuthentic
       /\ (ver'[v] # ver[v] /\ ~VerPure[ver'[v].rq].isAuthentic) =>
            (ver[v].pc = "idle" /\ ver'[v].pc = "done" /\ ledger' = ledger)
       /\ (ver[v].pc # "done" /\ ver'[v].pc = "done" /\ ver'[v].outcome = "First") =>
            /\ Len(ledger') = Len(ledger)
            /\ Cardinality({i \in DOMAIN ledger :
                              ledger[i].encrypted_data_salt = ver[v].salt}) = 1
            /\ \A i \in DOMAIN ledger :
                 IF ledger[i].encrypted_data_salt = ver[v].salt
                 THEN /\ ledger'[i].isVerified
                      /\ ledger'[i].verifiedAt = ver'[v].verifiedAt
                      /\ ledger'[i] = [ledger[i] EXCEPT
                                         !.isVerified = ledger'[i].isVerified,
                                         !.verifiedAt = ledger'[i].verifiedAt]
                 ELSE ledger'[i] = ledger[i]]_vars

\* C23 witness: in a ledger of two blocks one request has made the first
\* verification of one block, the other block is as it was stored, and
\* another request has ended without a write.
C23_Witness ==
  /\ Len(ledger) = 2
  /\ \E v, w \in VerProcs :
       /\ ver[v].pc = "done" /\ ver[v].outcome = "First"
       /\ ver[w].pc = "done" /\ ver[w].outcome \in ReadOnlyOutcomes
       /\ \E i, j \in DOMAIN ledger :
            /\ ledger[i].encrypted_data_salt = ver[v].salt
            /\ ledger[i].isVerified /\ ledger[i].verifiedAt = ver[v].verifiedAt
            /\ j # i /\ ~ledger[j].isVerified /\ ledger[j].verifiedAt = NULL

\* C24: the ledger is append-only under every interleaving of issuance and
\* verification requests: no block is removed or reordered, and the
\* timestamp, product_details_hash, salt, signature, previous_block_hash,
\* nonce and current_block_hash of a stored block never change.
C24_AppendOnly ==
  [][/\ Len(ledger') >= Len(ledger)
     /\ \A i \in DOMAIN ledger :
          /\ ledger'[i].id = ledger[i].id
          /\ ledger'[i].timestamp = ledger[i].timestamp
          /\ ledger'[i].product_details_hash = ledger[i].product_details_hash
          /\ ledger'[i].encrypted_data_salt = ledger[i].encrypted_data_salt
          /\ ledger'[i].signature = ledger[i].signature
          /\ ledger'[i].previous_block_hash = ledger[i].previous_block_hash
          /\ ledger'[i].nonce = ledger[i].nonce
          /\ ledger'[i].current_block_hash = ledger[i].current_block_hash]_vars

\* C24 witness: the first block was verified and a second block was appended
\* after it at a later clock value.
C24_Witness ==
  /\ Len(ledger) = 2
  /\ ledger[1].isVerified
  /\ ledger[2].createdAt > ledger[1].verifiedAt

\* The hash of the block content with nonce n begins with d '0' characters.
MeetsTarget(blockData, n, d) ==
  LET h == calculateBlockHash(WithNonce(blockData, n))
  IN  Len(h) >= d /\ \A i \in 1..d : h[i] = 0

\* C25: mineBlock tries the nonces in increasing order from 0 and returns
\* the smallest nonce n >= 0 whose block hash begins with the required
\* number of '0' characters; with difficulty 0 it returns nonce 0 after
\* exactly one hash attempt.
C25_SmallestNonce ==
  (call.fn = "mineBlock" /\ call.pc # "idle") =>
    /\ call.pc = "returned" =>
         /\ call.mined.nonce >= 0
         /\ MeetsTarget(call.blockData, call.mined.nonce, call.difficulty)
         /\ \A n \in 0..(call.mined.nonce - 1) :
              ~MeetsTarget(call.blockData, n, call.difficulty)
         /\ call.mined.attempts = call.mined.nonce + 1
    /\ call.difficulty = 0 =>
         call.pc = "returned" /\ call.mined.nonce = 0 /\ call.mined.attempts = 1

\* C25 witness: a call with a difficulty above 0 returned a nonce that two
\* or more smaller nonces precede.
C25_Witness ==
  /\ call.fn = "mineBlock" /\ call.pc = "returned"
  /\ call.difficulty >= 1
  /\ call.mined.nonce >= 2

\* C26: a failed issuance (mining exhausted, failure reading the chain tip,
\* failure persisting the block) ends with an error in place of the payload
\* and the signature and leaves the ledger as it was before the request: no
\* block of the ledger was stored by it.
C26_FailedIssuanceLeavesLedger ==
  \A g \in GenProcs :
    (gen[g].pc = "done" /\ gen[g].res # "ok") =>
      /\ gen[g].res \in {"CryptoError", "NoSalt", "TipError", "MiningExhausted",
                         "DuplicateSalt", "DuplicateHash", "SaveFailed"}
      /\ ~\E i \in DOMAIN ledger : ledger[i].id = gen[g].blockId

\* One encoding round on a byte, in arithmetic: XOR with the key byte, rotate
\* left by one bit within 8 bits, swap the nibbles.
EncodeStep(x, k) ==
  LET a == BitXor(x, k)
      b == ((2 * a) % 256) + (a \div 128)
  IN  ((b % 16) * 16) + (b \div 16)

\* One decoding round: swap the nibbles, rotate right by one bit, XOR.
DecodeStep(y, k) ==
  LET a == ((y % 16) * 16) + (y \div 16)
      b == (a \div 2) + ((a % 2) * 128)
  IN  BitXor(b, k)

RECURSIVE EncodeSteps(_, _, _)
EncodeSteps(x, k, r) == IF r = 0 THEN x ELSE EncodeStep(EncodeSteps(x, k, r - 1), k)

RECURSIVE DecodeSteps(_, _, _)
DecodeSteps(y, k, r) == IF r = 0 THEN y ELSE DecodeStep(DecodeSteps(y, k, r - 1), k)

\* C27: encoding applies exactly 4 rounds to every byte position i, each
\* round XOR with keyStream[i], rotate-left by 1 bit, nibble swap, with the
\* same keyStream[i] in all rounds; decoding applies 4 rounds of nibble swap,
\* rotate-right by 1 bit, XOR with keyStream[i]; every intermediate and final
\* value is in 0..255, the output is as long as the input, and output byte i
\* is a function of input byte i and keyStream[i] alone.
C27_RoundStructure ==
  /\ (call.fn = "rounds" /\ call.pc # "idle") =>
       /\ Len(call.cipher) = Len(call.plain)
       /\ Len(call.decoded) = Len(call.cipher)
       /\ \A i \in DOMAIN call.plain :
            /\ call.cipher[i] = EncodeSteps(call.plain[i], call.keyStream[i], 4)
            /\ call.decoded[i] = DecodeSteps(call.cipher[i], call.keyStream[i], 4)
            /\ \A r \in 1..4 :
                 /\ EncodeSteps(call.plain[i], call.keyStream[i], r) \in 0..255
                 /\ DecodeSteps(call.cipher[i], call.keyStream[i], r) \in 0..255
                 /\ EncryptRounds(call.plain, call.keyStream, r)[i]
                      = EncodeSteps(call.plain[i], call.keyStream[i], r)
                 /\ DecryptRounds(call.cipher, call.keyStream, r)[i]
                      = DecodeSteps(call.cipher[i], call.keyStream[i], r)
  /\ (call.fn = "advancedQHC" /\ call.pc # "idle") =>
       LET keyStream == generateKeyStream(call.secretKey, call.salt, Len(call.plain))
           cipherBuffer == FromHex(Split(call.encrypted)[2])
       IN  /\ Len(cipherBuffer) = Len(call.plain)
           /\ \A i \in DOMAIN call.plain :
                cipherBuffer[i] = EncodeSteps(call.plain[i], keyStream[i], 4)

\* C27 witness: a buffer of three bytes was encoded with three different key
\* stream bytes into three other bytes, and decoded.
C27_Witness ==
  /\ call.fn = "rounds" /\ call.pc = "returned"
  /\ Len(call.plain) = 3
  /\ \A i \in 1..3 : call.cipher[i] # call.plain[i]
  /\ Cardinality({call.keyStream[i] : i \in 1..3}) = 3

\* C28: issued codes verify: for every plaintext, the empty string included,
\* and every secret key, advancedQDSGenerateSignature on the output of
\* advancedQHCEncrypt returns a signature without failing, and
\* advancedQDSVerifySignature of that payload, that signature and the same
\* key returns true.
C28_IssuedCodesVerify ==
  (call.fn = "issue" /\ call.pc # "idle") =>
    /\ call.pc = "returned"
    /\ Len(call.signature) = SigLen
    /\ call.ok

\* Every text of one byte or more is signed and its code verifies; the
\* issues that fail are those of the empty text.
IssuedNonEmptyTextVerifies ==
  (call.fn = "issue" /\ call.pc # "idle") =>
    IF call.plain = <<>> THEN call.pc = "thrown"
    ELSE call.pc = "returned" /\ Len(call.signature) = SigLen /\ call.ok

\* The key stream a key gives for the payload of a call.
KeyStreamOf(secretKey) ==
  generateKeyStream(secretKey, call.salt, Len(call.cipher))

\* C29 as stated: for a fixed payload, two secret keys give the same
\* signature exactly when their keyStream[0] are equal, whatever else their
\* key streams hold, and the signature of one key does not verify with
\* another key whose keyStream[0] differs.
C29_SignatureBindsKey ==
  (call.fn = "twoKeys" /\ call.pc = "returned") =>
    /\ (call.signature = call.otherSignature)
         <=> (KeyStreamOf(call.secretKey)[1] = KeyStreamOf(call.otherKey)[1])
    /\ KeyStreamOf(call.secretKey)[1] # KeyStreamOf(call.otherKey)[1] => ~call.ok

\* C29 amended: the same, for payloads whose hashValue has, under both keys,
\* no more base-62 digits than the signature has characters.
C29_SignatureBindsKeyUntruncated ==
  (/\ call.fn = "twoKeys" /\ call.pc = "returned"
   /\ SignatureDigits(call.encrypted, call.secretKey) <= call.width
   /\ SignatureDigits(call.encrypted, call.otherKey) <= call.width) =>
    /\ (call.signature = call.otherSignature)
         <=> (KeyStreamOf(call.secretKey)[1] = KeyStreamOf(call.otherKey)[1])
    /\ KeyStreamOf(call.secretKey)[1] # KeyStreamOf(call.otherKey)[1] => ~call.ok

\* C29 witness: an issued payload has the same signature of 8 characters
\* under two keys whose key streams begin with the same byte and differ in
\* the second one.
C29_Witness ==
  /\ call.fn = "twoKeys" /\ call.pc = "returned" /\ call.width = SigLen
  /\ call.encrypted \in {rq.encrypted : rq \in GenRequests}
  /\ call.secretKey # call.otherKey
  /\ KeyStreamOf(call.secretKey)[1] = KeyStreamOf(call.otherKey)[1]
  /\ KeyStreamOf(call.secretKey)[2] # KeyStreamOf(call.otherKey)[2]
  /\ call.signature = call.otherSignature /\ call.ok

\* C30: in the error handler of an issuance, a uniqueness conflict that
\* create reports on current_block_hash, while no block has the salt, gives
\* the "same hash already exists" error, and a conflict on the salt gives
\* the "same salt already exists" error; neither kind is reported with the
\* message of the other.
C30_ConflictMessages ==
  \A g \in GenProcs :
    (gen[g].pc = "done" /\ gen[g].dbError.code = "P2002") =>
      /\ (/\ gen[g].dbError.target = {"current_block_hash"}
          /\ BlocksWithSalt(gen[g].rq.encryptedDataSalt) = {}) =>
           gen[g].res = "DuplicateHash"
      /\ gen[g].dbError.target = {"encrypted_data_salt"} =>
           gen[g].res = "DuplicateSalt"

====
